---- MODULE Spec2Model ----
(***************************************************************************)
(* A model of ulna's configuration validator: the predicate layer          *)
(* (predicates.py), the schema builder and the validator engine            *)
(* (validator.py), the shipped configuration schema and the load boundary  *)
(* (config.py) and the CLI pipeline (__main__.py).                         *)
(*                                                                         *)
(* Three specifications share the variables:                               *)
(*   SpecPredicates  applies the leaf predicates to bounded values;        *)
(*   SpecEngine      drives Builder.add_field / add_section / build and    *)
(*                   Validator.validate over bounded schemas and trees;    *)
(*   Spec            runs config.load, CONFIG_VALIDATOR.validate and       *)
(*                   App.run over a bounded file system and document set.  *)
(***************************************************************************)
EXTENDS Integers, Sequences, FiniteSets, Bags, TLC

VARIABLES
    mode,           \* which specification's part of the program is running
    resultBool,     \* truthiness of result.Ok / result.Err objects (library)
    hashOrder,      \* iteration order of a Python set of unrecognized keys
    predInput,      \* the value last given to a leaf predicate (or NoValue)
    predOutput,     \* what each leaf predicate answered for predInput
    builder,        \* the validator.Builder under construction
    child,          \* a Validator built earlier, available to add_section
    validator,      \* the Validator last returned by Builder.build()
    calls,          \* how many add_field / add_section calls were made
    tree,           \* the value last given to Validator.validate
    result,         \* what Validator.validate returned for it
    fs,             \* what is at the configuration path
    doc,            \* the tree tomllib.loads gives for the file's contents
    loadResult,     \* what config.load returned
    loadCalledValidate, \* whether config.load reached CONFIG_VALIDATOR.validate
    pc,             \* App.run's position
    runLoad,        \* App.run: result of the load step
    runTypecheck,   \* App.run: answer of the experimental type check
    runValidate,    \* App.run: result of the validate step
    runLog,         \* App.run: kinds of errors logged, in order
    exitCode,       \* App.run: its return value (or NoValue)
    heap,           \* the list objects of a Builder and of the Validator it built
    threads,        \* the validate calls in progress, one frame per caller
    returned,       \* per tree: how often validate returned, and what
    projectBuild    \* the project builder's build: what it did and returned

vars == <<mode, resultBool, hashOrder, predInput, predOutput, builder, child,
          validator, calls, tree, result, fs, doc, loadResult, loadCalledValidate,
          pc, runLoad, runTypecheck, runValidate, runLog, exitCode, heap,
          threads, returned, projectBuild>>

(***************************************************************************)
(* Bounds of the model.                                                    *)
(***************************************************************************)
MaxStrLen == 3
MaxListLen == 1
MaxCalls == 3
NumCallers == 2

(***************************************************************************)
(* The value model.  A Python value reaching the validator is a dict, a    *)
(* list, a str or another scalar (int, bool, float, date); None is what    *)
(* dict.get returns for a key that is absent.  A str is the sequence of    *)
(* its characters' code points.                                            *)
(***************************************************************************)
None == [kind |-> "none"]
Other == [kind |-> "other"]
Str(s) == [kind |-> "str", chars |-> s]
Lst(items) == [kind |-> "list", items |-> items]
Tbl(entries) == [kind |-> "table", entries |-> entries]

NoValue == [kind |-> "novalue"]

\* the universe of keys a table of the model may hold
Keys == {"program", "dependencies", "build", "name", "description",
         "include_dirs", "include_shared", "compiler", "additional_flags",
         "extra", "bogus", "a", "b", "s", "t", "config", "y", "z"}

\* a dict literal: the keys of `pairs` hold their values, all others are absent
Dict(pairs) == Tbl([k \in Keys |-> IF k \in DOMAIN pairs THEN pairs[k] ELSE None])
EmptyDict == Tbl([k \in Keys |-> None])

\* `key in data` / iteration over a dict's keys
DictKeys(data) == {k \in Keys : data.entries[k] # None}
\* data.get(key)
Get(data, key) == data.entries[key]

(***************************************************************************)
(* predicates.py                                                           *)
(***************************************************************************)
is_string(value) == value.kind = "str"

_is_list_of_str(value) ==
    /\ value.kind = "list"
    /\ \A i \in 1..Len(value.items) : value.items[i].kind = "str"

is_list_of_strings(value) == _is_list_of_str(value)

is_any_dict(value) == value.kind = "table"

\* "a" <= char <= "z" or char == "_", on code points
_is_lowercase_letter_or_underscore(particle) ==
    \A i \in 1..Len(particle) :
        (97 <= particle[i] /\ particle[i] <= 122) \/ particle[i] = 95

is_project_identifier(value) ==
    IF value.kind # "str" THEN FALSE
    ELSE \A i \in 1..Len(value.chars) :
            _is_lowercase_letter_or_underscore(<<value.chars[i]>>)

GccChars == <<103, 99, 99>>
ClangChars == <<99, 108, 97, 110, 103>>

is_compiler_name(value) == value = Str(GccChars)

\* Predicate objects (datatypes.Predicate): a name and a function
PredicateNames == {"string", "list of strings", "project identifier",
                   "compiler name"}

PredicateFunction(name, value) ==
    CASE name = "string" -> is_string(value)
      [] name = "list of strings" -> is_list_of_strings(value)
      [] name = "project identifier" -> is_project_identifier(value)
      [] name = "compiler name" -> is_compiler_name(value)

(***************************************************************************)
(* validator.py: diagnostics                                               *)
(***************************************************************************)
\* section_name of a validator built by Builder() with no name (Python None)
NoName == "<None>"

FieldTypeError(field_name, section_name, expected_type) ==
    [kind |-> "FieldTypeError", field_name |-> field_name,
     section_name |-> section_name, expected_type |-> expected_type]
SectionKindError(section_name) ==
    [kind |-> "SectionKindError", section_name |-> section_name]
MissingFieldError(field_name, section_name) ==
    [kind |-> "MissingFieldError", field_name |-> field_name,
     section_name |-> section_name]
MissingSectionError(section_name) ==
    [kind |-> "MissingSectionError", section_name |-> section_name]
NonexistentFieldError(field_name, section_name) ==
    [kind |-> "NonexistentFieldError", field_name |-> field_name,
     section_name |-> section_name]

(***************************************************************************)
(* The result library's Ok / Err, and a raised exception.                  *)
(***************************************************************************)
Ok(value) == [tag |-> "Ok", value |-> value, errors |-> <<>>]
Err(errors) == [tag |-> "Err", value |-> None, errors |-> errors]
Raise(exc) == [tag |-> "Raise", value |-> None, errors |-> <<[kind |-> exc]>>]
Errors(r) == {r.errors[i] : i \in 1..Len(r.errors)}
\* no call has returned yet
NoResult == [tag |-> "NoResult", value |-> None, errors |-> <<>>]

\* bool(r) for a Result object r: the library either defines no __bool__
\* (every object is truthy) or defines it as is_ok
Truthy(r) == IF resultBool = "is_ok" THEN r.tag = "Ok" ELSE TRUE

(***************************************************************************)
(* validator.py: ValidationField, ValidationSection, Validator             *)
(***************************************************************************)
ValidationField(name, v, optional) ==
    [name |-> name, validator |-> v, optional |-> optional]
ValidationSection(name, v, optional) ==
    [name |-> name, validator |-> v, optional |-> optional]

\* what add_field is given as `validator`: a Predicate object, or (config.py)
\* the bound method `validate` of another Validator
Predicate(name) == [kind |-> "predicate", name |-> name]
BoundValidate(v) == [kind |-> "method", self |-> v]

\* Validator.__init__: the fields and sections are copied into new lists
Validator(name, fields, sections) ==
    [section_name |-> name, fields |-> fields, sections |-> sections]

\* Validator.name without the literal for an unnamed validator
Name_section_name(self) == self.section_name

\* Validator.name
Name(self) == IF self.section_name = NoName THEN "config" ELSE self.section_name

_get_entry_names(self) ==
    {self.fields[i].name : i \in 1..Len(self.fields)} \cup
    {self.sections[i].name : i \in 1..Len(self.sections)}

\* _get_unrecognized_entries knowing the field names only
_get_unrecognized_entries_fields_only(self, data) ==
    {key \in DictKeys(data) :
        \A i \in 1..Len(self.fields) : self.fields[i].name # key}

_get_unrecognized_entries(self, data) ==
    {key \in DictKeys(data) : key \notin _get_entry_names(self)}

\* the elements of a set of keys in the order a Python `for` gives them
RECURSIVE IterationOrder(_, _)
IterationOrder(order, S) ==
    IF order = <<>> THEN <<>>
    ELSE (IF Head(order) \in S THEN <<Head(order)>> ELSE <<>>)
         \o IterationOrder(Tail(order), S)

RECURSIVE Concat(_)
Concat(seqs) == IF seqs = <<>> THEN <<>> ELSE Head(seqs) \o Concat(Tail(seqs))

RECURSIVE validate(_, _)

\* _check_field reporting a missing required field as a type error
_check_field_missing_as_type_error(self, name, value, v, optional) ==
    IF value = None
    THEN IF ~optional
         THEN Err(<<FieldTypeError(name, self.section_name, v.name)>>)
         ELSE Ok(None)
    ELSE IF ~PredicateFunction(v.name, value)
    THEN Err(<<FieldTypeError(name, self.section_name, v.name)>>)
    ELSE Ok(value)

\* _check_field not applying the predicate of an optional field
_check_field_optional_unchecked(self, name, value, v, optional) ==
    IF value = None
    THEN IF ~optional THEN Err(<<MissingFieldError(name, self.section_name)>>)
         ELSE Ok(None)
    ELSE IF ~optional /\ ~PredicateFunction(v.name, value)
    THEN Err(<<FieldTypeError(name, self.section_name, v.name)>>)
    ELSE Ok(value)

\* _check_field taking every field as required
_check_field_all_required(self, name, value, v, optional) ==
    IF value = None THEN Err(<<MissingFieldError(name, self.section_name)>>)
    ELSE IF ~PredicateFunction(v.name, value)
    THEN Err(<<FieldTypeError(name, self.section_name, v.name)>>)
    ELSE Ok(value)

\* _check_field taking every field as optional
_check_field_all_optional(self, name, value, v, optional) ==
    IF value = None THEN Ok(None)
    ELSE IF ~PredicateFunction(v.name, value)
    THEN Err(<<FieldTypeError(name, self.section_name, v.name)>>)
    ELSE Ok(value)

\* _check_field's Result: Ok (no error), Err with one error, or an exception
_check_field(self, name, value, v, optional) ==
    IF value = None
    THEN IF ~optional
         THEN Err(<<MissingFieldError(name, self.section_name)>>)
         ELSE Ok(None)
    ELSE IF v.kind = "predicate"
         THEN IF ~PredicateFunction(v.name, value)
              THEN Err(<<FieldTypeError(name, self.section_name, v.name)>>)
              ELSE Ok(value)
         ELSE \* `validator(value)` is Validator.validate, returning a Result;
              \* `validator.name` on a bound method raises AttributeError
              LET r == validate(v.self, value)
              IN  IF r.tag = "Raise" THEN r
                  ELSE IF ~Truthy(r) THEN Raise("AttributeError")
                  ELSE Ok(value)

\* _check_section wrapping the sub-validator's diagnostics into one
_check_section_wrapping(section, v, optional) ==
    IF section = None
    THEN IF ~optional
         THEN Err(<<MissingSectionError(Name(v))>>)
         ELSE Ok(None)
    ELSE LET r == validate(v, section)
         IN  IF r.tag = "Err" THEN Err(<<SectionKindError(Name(v))>>) ELSE r

\* _check_section walking the sub-validator for an absent section
_check_section_absent_recurses(section, v, optional) ==
    IF section = None
    THEN IF ~optional
         THEN Err(<<MissingSectionError(Name(v))>>
                  \o validate(v, EmptyDict).errors)
         ELSE Ok(None)
    ELSE validate(v, section)

_check_section(section, v, optional) ==
    IF section = None
    THEN IF ~optional
         THEN Err(<<MissingSectionError(Name(v))>>)
         ELSE Ok(None)
    ELSE validate(v, section)

\* the walk leaving the field loop at the first field in error
validate_errors_fields_until_failure(self, data) ==
    LET unrecognized_entries == _get_unrecognized_entries(self, data)
        unrecognized == IterationOrder(hashOrder, unrecognized_entries)
        fieldResults ==
            [i \in 1..Len(self.fields) |->
                _check_field(self, self.fields[i].name,
                             Get(data, self.fields[i].name),
                             self.fields[i].validator,
                             self.fields[i].optional)]
        sectionResults ==
            [i \in 1..Len(self.sections) |->
                _check_section(Get(data, self.sections[i].name),
                               self.sections[i].validator,
                               self.sections[i].optional)]
    IN  [raised |->
            \/ \E i \in 1..Len(self.fields) : fieldResults[i].tag = "Raise"
            \/ \E i \in 1..Len(self.sections) : sectionResults[i].tag = "Raise",
         errors |->
            [i \in 1..Len(unrecognized) |->
                NonexistentFieldError(unrecognized[i], self.section_name)]
            \o (LET all == Concat([i \in 1..Len(self.fields) |->
                                      fieldResults[i].errors])
                IN  IF all = <<>> THEN <<>> ELSE <<Head(all)>>)
            \o Concat([i \in 1..Len(self.sections) |-> sectionResults[i].errors])]

\* the walk visiting the sections before the fields
validate_errors_sections_first(self, data) ==
    LET unrecognized_entries == _get_unrecognized_entries(self, data)
        unrecognized == IterationOrder(hashOrder, unrecognized_entries)
        fieldResults ==
            [i \in 1..Len(self.fields) |->
                _check_field(self, self.fields[i].name,
                             Get(data, self.fields[i].name),
                             self.fields[i].validator,
                             self.fields[i].optional)]
        sectionResults ==
            [i \in 1..Len(self.sections) |->
                _check_section(Get(data, self.sections[i].name),
                               self.sections[i].validator,
                               self.sections[i].optional)]
    IN  [raised |->
            \/ \E i \in 1..Len(self.fields) : fieldResults[i].tag = "Raise"
            \/ \E i \in 1..Len(self.sections) : sectionResults[i].tag = "Raise",
         errors |->
            [i \in 1..Len(unrecognized) |->
                NonexistentFieldError(unrecognized[i], self.section_name)]
            \o Concat([i \in 1..Len(self.sections) |-> sectionResults[i].errors])
            \o Concat([i \in 1..Len(self.fields) |-> fieldResults[i].errors])]

\* the walk of validate: unrecognized keys, then fields, then sections
validate_errors(self, data) ==
    LET unrecognized_entries == _get_unrecognized_entries(self, data)
        unrecognized == IterationOrder(hashOrder, unrecognized_entries)
        fieldResults ==
            [i \in 1..Len(self.fields) |->
                _check_field(self, self.fields[i].name,
                             Get(data, self.fields[i].name),
                             self.fields[i].validator,
                             self.fields[i].optional)]
        sectionResults ==
            [i \in 1..Len(self.sections) |->
                _check_section(Get(data, self.sections[i].name),
                               self.sections[i].validator,
                               self.sections[i].optional)]
    IN  [raised |->
            \/ \E i \in 1..Len(self.fields) : fieldResults[i].tag = "Raise"
            \/ \E i \in 1..Len(self.sections) : sectionResults[i].tag = "Raise",
         errors |->
            [i \in 1..Len(unrecognized) |->
                NonexistentFieldError(unrecognized[i], self.section_name)]
            \o Concat([i \in 1..Len(self.fields) |-> fieldResults[i].errors])
            \o Concat([i \in 1..Len(self.sections) |-> sectionResults[i].errors])]

\* validate walking on after a kind error
validate_kind_error_and_walk(self, data) ==
    IF ~is_any_dict(data)
    THEN Err(<<SectionKindError(Name(self))>>
             \o validate_errors(self, EmptyDict).errors)
    ELSE LET walk == validate_errors(self, data)
         IN  IF walk.raised THEN Raise("AttributeError")
             ELSE IF walk.errors # <<>> THEN Err(walk.errors)
             ELSE Ok(data)

\* validate reporting nothing but the kind errors once there is one
validate_kind_error_suppresses(self, data) ==
    IF ~is_any_dict(data) THEN Err(<<SectionKindError(Name(self))>>)
    ELSE LET walk == validate_errors(self, data)
             IsKindError(e) == e.kind = "SectionKindError"
         IN  IF walk.raised THEN Raise("AttributeError")
             ELSE IF SelectSeq(walk.errors, IsKindError) # <<>>
             THEN Err(SelectSeq(walk.errors, IsKindError))
             ELSE IF walk.errors # <<>> THEN Err(walk.errors)
             ELSE Ok(data)

\* validate stopping at the first diagnostic
validate_first_error_only(self, data) ==
    IF ~is_any_dict(data) THEN Err(<<SectionKindError(Name(self))>>)
    ELSE LET walk == validate_errors(self, data)
         IN  IF walk.raised THEN Raise("AttributeError")
             ELSE IF walk.errors # <<>> THEN Err(<<Head(walk.errors)>>)
             ELSE Ok(data)

\* validate returning Ok without the tree
validate_ok_without_tree(self, data) ==
    IF ~is_any_dict(data) THEN Err(<<SectionKindError(Name(self))>>)
    ELSE LET walk == validate_errors(self, data)
         IN  IF walk.raised THEN Raise("AttributeError")
             ELSE IF walk.errors # <<>> THEN Err(walk.errors)
             ELSE Ok(None)

validate(self, data) ==
    IF ~is_any_dict(data) THEN Err(<<SectionKindError(Name(self))>>)
    ELSE LET walk == validate_errors(self, data)
         IN  IF walk.raised THEN Raise("AttributeError")
             ELSE IF walk.errors # <<>> THEN Err(walk.errors)
             ELSE Ok(data)

(***************************************************************************)
(* validator.py: Builder                                                   *)
(***************************************************************************)
Builder(name) == [name |-> name, _fields |-> <<>>, _sections |-> <<>>]

add_field(self, name, v, optional) ==
    [self EXCEPT !._fields = Append(@, ValidationField(name, v, optional))]

add_section(self, v, optional) ==
    [self EXCEPT !._sections = Append(@, ValidationSection(Name(v), v, optional))]

build(self) == Validator(self.name, self._fields, self._sections)

(***************************************************************************)
(* config.py: the shipped schema                                           *)
(***************************************************************************)
PROGRAM_SECTION_VALIDATOR ==
    build(add_field(add_field(Builder(NoName),
        "name", Predicate("project identifier"), FALSE),
        "description", Predicate("string"), TRUE))

DEPENDENCIES_SECTION_VALIDATOR ==
    build(add_field(add_field(Builder(NoName),
        "include_dirs", Predicate("list of strings"), TRUE),
        "include_shared", Predicate("list of strings"), TRUE))

BUILD_SECTION_VALIDATOR ==
    build(add_field(add_field(Builder(NoName),
        "compiler", Predicate("compiler name"), TRUE),
        "additional_flags", Predicate("list of strings"), TRUE))

CONFIG_VALIDATOR ==
    build(add_field(add_field(add_field(Builder(NoName),
        "program", BoundValidate(PROGRAM_SECTION_VALIDATOR), FALSE),
        "dependencies", BoundValidate(DEPENDENCIES_SECTION_VALIDATOR), TRUE),
        "build", BoundValidate(BUILD_SECTION_VALIDATOR), TRUE))

(***************************************************************************)
(* typesys_old.py: the experimental type-checking scheme                   *)
(***************************************************************************)
StringType == [t |-> "leaf", predicate |-> "string"]
IdentifierType == [t |-> "leaf", predicate |-> "project identifier"]
CompilerNameType == [t |-> "leaf", predicate |-> "compiler name"]
make_list_type(ty) == [t |-> "list", of |-> ty]
make_optional_type(ty) == [t |-> "optional", of |-> ty]
\* fields: a sequence of <<name, type>> in keyword order
make_section_type(fields) == [t |-> "section", fields |-> fields]

RECURSIVE TypeCheck(_, _)
TypeCheck(ty, data) ==
    CASE ty.t = "leaf" -> PredicateFunction(ty.predicate, data)
      [] ty.t = "list" ->
            /\ data.kind = "list"
            /\ \A i \in 1..Len(data.items) : TypeCheck(ty.of, data.items[i])
      [] ty.t = "optional" ->
            IF data = None THEN TRUE ELSE TypeCheck(ty.of, data)
      [] ty.t = "section" ->
            /\ data.kind = "table"
            /\ \A i \in 1..Len(ty.fields) :
                  TypeCheck(ty.fields[i][2], Get(data, ty.fields[i][1]))
            /\ {key \in DictKeys(data) :
                  key \notin {ty.fields[i][1] : i \in 1..Len(ty.fields)}} = {}

ProgramSection ==
    make_section_type(<< <<"name", StringType>>,
                         <<"description", make_optional_type(StringType)>> >>)
DependenciesSection ==
    make_section_type(
        << <<"include_dirs", make_optional_type(make_list_type(StringType))>>,
           <<"include_shared", make_optional_type(make_list_type(StringType))>> >>)
BuildSection ==
    make_section_type(
        << <<"compiler", make_optional_type(CompilerNameType)>>,
           <<"additional_flags", make_optional_type(make_list_type(StringType))>> >>)
Config ==
    make_section_type(
        << <<"program", ProgramSection>>,
           <<"dependencies", make_optional_type(DependenciesSection)>>,
           <<"build", make_optional_type(BuildSection)>> >>)

(***************************************************************************)
(* config.py: the load boundary                                            *)
(***************************************************************************)
ConfigFileNotFoundError == [kind |-> "ConfigFileNotFoundError"]
ConfigFilePermissionError == [kind |-> "ConfigFilePermissionError"]
MalformedTOMLError == [kind |-> "MalformedTOMLError"]
InvalidConfigFileError(field_name, message) ==
    [kind |-> "InvalidConfigFileError", field_name |-> field_name,
     message |-> message]

\* What can be at the path:
\*   absent       no file: open() raises FileNotFoundError
\*   unreadable   a file the process may not read: open() raises PermissionError
\*   read_denied  open() succeeds and read() raises PermissionError
\*   undecodable  the bytes are not UTF-8: read() raises UnicodeDecodeError
\*   malformed    text that is not TOML: tomllib.loads raises TOMLDecodeError
\*   wellformed   text that parses to the tree `doc`
FileStates == {"absent", "unreadable", "read_denied", "undecodable",
               "malformed", "wellformed"}

\* open(path): FileNotFoundError and PermissionError are both OSError
OpenRaisesOSError(f) == f \in {"absent", "unreadable"}
ReadRaisesPermissionError(f) == f = "read_denied"

\* config.load: its Result (or the exception it lets through), and whether it
\* called CONFIG_VALIDATOR.validate
load(f, document) ==
    IF OpenRaisesOSError(f)
    THEN [result |-> Err(<<ConfigFileNotFoundError>>), validated |-> FALSE]
    ELSE IF ReadRaisesPermissionError(f)
    THEN [result |-> Err(<<ConfigFilePermissionError>>), validated |-> FALSE]
    ELSE IF f = "undecodable"
    THEN [result |-> Raise("UnicodeDecodeError"), validated |-> FALSE]
    ELSE IF f = "malformed"
    THEN [result |-> Err(<<MalformedTOMLError>>), validated |-> FALSE]
    ELSE LET r == validate(CONFIG_VALIDATOR, document)
         IN  [result |->
                 IF r.tag = "Raise" THEN r
                 ELSE IF ~Truthy(r)
                 THEN Err(<<InvalidConfigFileError("unknown", "invalid field")>>)
                 ELSE Ok(document),
              validated |-> TRUE]

(***************************************************************************)
(* Bounded inputs.                                                         *)
(***************************************************************************)
SeqsUpTo(S, n) == UNION {[1..k -> S] : k \in 0..n}

\* code points: 'a', 'z', 'A', '_', '-', ' '
Alphabet == {97, 122, 65, 95, 45, 32}
Strings == {Str(s) : s \in SeqsUpTo(Alphabet, MaxStrLen)}

ListItems == {Str(<<97>>), Other}
Lists == {Lst(items) : items \in SeqsUpTo(ListItems, MaxListLen)}

\* values given to the leaf predicates
PredicateInputs ==
    Strings \cup Lists \cup {Str(GccChars), Str(ClangChars), Other, EmptyDict}

\* documents for the shipped schema
NameVals == {None, Other, Str(<<97, 95, 98>>), Str(<<97, 45, 98>>)}
DescriptionVals == {None, Other, Str(<<97>>)}
BogusVals == {None, Other}
CompilerVals == {None, Other, Str(GccChars), Str(ClangChars)}
ListVals == {None, Other} \cup Lists

ProgramVals ==
    {None, Other} \cup
    {Dict([name |-> n, description |-> d, bogus |-> b]) :
        n \in NameVals, d \in DescriptionVals, b \in BogusVals}
DependenciesVals ==
    {None, Other} \cup
    {Dict([include_dirs |-> d, include_shared |-> sh]) :
        d \in ListVals, sh \in {None, Str(<<97>>), Lst(<<Str(<<97>>)>>)}}
BuildVals ==
    {None, Other} \cup
    {Dict([compiler |-> c, additional_flags |-> f]) :
        c \in CompilerVals, f \in {None, Lst(<<Other>>)}}
Documents ==
    {Dict([program |-> p, dependencies |-> d, build |-> b, extra |-> e]) :
        p \in ProgramVals, d \in DependenciesVals, b \in BuildVals,
        e \in BogusVals}

\* two of the orders in which a set of keys may be iterated
KeyOrder ==
    <<"program", "dependencies", "build", "name", "description",
      "include_dirs", "include_shared", "compiler", "additional_flags",
      "extra", "bogus", "a", "b", "s", "t", "config", "y", "z">>
Reverse(q) == [i \in 1..Len(q) |-> q[Len(q) + 1 - i]]
HashOrders == {KeyOrder, Reverse(KeyOrder)}

ResultBools == {"object", "is_ok"}

(***************************************************************************)
(* The predicate layer as a state machine.                                 *)
(***************************************************************************)
IdleEngine ==
    /\ builder = NoValue /\ child = NoValue /\ validator = NoValue
    /\ calls = 0 /\ heap = <<>>
\* the project builder has not been constructed
NoBuild ==
    [raised |-> "none", raised_in |-> "none", compiler_name |-> NoValue,
     returncode |-> -1, delete_binary |-> 0, remove_raised |-> FALSE,
     returned |-> "none"]

IdleCalls == threads = <<>> /\ returned = <<>>

IdleApp ==
    /\ fs = "absent" /\ doc = NoValue /\ loadResult = NoResult
    /\ loadCalledValidate = FALSE /\ pc = "idle" /\ runLoad = NoResult
    /\ runTypecheck = NoValue /\ runValidate = NoResult /\ runLog = <<>>
    /\ exitCode = -1
    /\ projectBuild = NoBuild

InitPredicates ==
    /\ mode = "predicates"
    /\ resultBool = "object" /\ hashOrder = KeyOrder
    /\ predInput = NoValue /\ predOutput = NoValue
    /\ tree = NoValue /\ result = NoResult
    /\ IdleEngine /\ IdleApp /\ IdleCalls

\* a host calls every Predicate object on one value
ApplyPredicates ==
    /\ mode = "predicates"
    /\ \E v \in PredicateInputs :
        /\ predInput' = v
        /\ predOutput' = [n \in PredicateNames |-> PredicateFunction(n, v)]
    /\ UNCHANGED <<threads, returned, projectBuild, heap, mode, resultBool, hashOrder, builder, child, validator,
                   calls, tree, result, fs, doc, loadResult, loadCalledValidate, pc,
                   runLoad, runTypecheck, runValidate, runLog, exitCode>>

NextPredicates == ApplyPredicates
SpecPredicates == InitPredicates /\ [][NextPredicates]_vars

(***************************************************************************)
(* The application: config.load, CONFIG_VALIDATOR.validate, App.run.       *)
(***************************************************************************)
Init ==
    /\ mode = "app"
    /\ resultBool \in ResultBools
    \* no table of Documents holds more than one unrecognized key
    /\ hashOrder = KeyOrder
    /\ predInput = NoValue /\ predOutput = NoValue
    /\ IdleEngine
    /\ tree = NoValue /\ result = NoResult
    /\ fs \in FileStates
    /\ doc \in IF fs = "wellformed" THEN Documents ELSE {NoValue}
    /\ loadResult = NoResult /\ loadCalledValidate = FALSE
    /\ pc = "idle"
    /\ runLoad = NoResult /\ runTypecheck = NoValue /\ runValidate = NoResult
    /\ runLog = <<>> /\ exitCode = -1
    /\ projectBuild = NoBuild /\ IdleCalls

\* a host calls CONFIG_VALIDATOR.validate on a parsed document
ValidateConfig ==
    /\ mode = "app" /\ pc = "idle" /\ doc # NoValue
    /\ tree' = doc
    /\ result' = validate(CONFIG_VALIDATOR, doc)
    /\ pc' = "validated"
    /\ UNCHANGED <<threads, returned, projectBuild, heap, mode, resultBool, hashOrder, predInput, predOutput, builder,
                   child, validator, calls, fs, doc, loadResult, loadCalledValidate,
                   runLoad, runTypecheck, runValidate, runLog, exitCode>>

\* a host calls config.load on the path
Load ==
    /\ mode = "app" /\ pc = "idle"
    /\ loadResult' = load(fs, doc).result
    /\ loadCalledValidate' = load(fs, doc).validated
    /\ pc' = "loaded"
    /\ UNCHANGED <<threads, returned, projectBuild, heap, mode, resultBool, hashOrder, predInput, predOutput, builder,
                   child, validator, calls, tree, result, fs, doc,
                   runLoad, runTypecheck, runValidate, runLog, exitCode>>

(***************************************************************************)
(* __main__.py: App.run, one action per step.  config.load_toml and        *)
(* config.validate are not in config.py as it stands; they are taken from  *)
(* the specification's load boundary and validator engine.                 *)
(***************************************************************************)
NotFound == [kind |-> "NotFound"]
PermissionDenied == [kind |-> "PermissionDenied"]
MalformedSyntax == [kind |-> "MalformedSyntax"]
AcquisitionErrors == {NotFound, PermissionDenied, MalformedSyntax}

load_toml(f, document) ==
    CASE f = "absent" -> Err(<<NotFound>>)
      [] f \in {"unreadable", "read_denied"} -> Err(<<PermissionDenied>>)
      [] f \in {"undecodable", "malformed"} -> Err(<<MalformedSyntax>>)
      [] f = "wellformed" -> Ok(document)

config_validate(data) == validate(CONFIG_VALIDATOR, data)

NoVirtualEnvironment == [kind |-> "NoVirtualEnvironment"]

\* venv_path = os.environ.get("VIRTUAL_ENV"); None: log and return 1
RunStart ==
    /\ mode = "app" /\ pc = "idle"
    /\ \E venv \in BOOLEAN :
        IF ~venv
        THEN /\ runLog' = Append(runLog, NoVirtualEnvironment)
             /\ exitCode' = 1
             /\ pc' = "done"
        ELSE /\ pc' = "load_toml"
             /\ UNCHANGED <<runLog, exitCode>>
    /\ UNCHANGED <<threads, returned, projectBuild, heap, mode, resultBool, hashOrder, predInput, predOutput, builder,
                   child, validator, calls, tree, result, fs, doc, loadResult,
                   loadCalledValidate, runLoad, runTypecheck, runValidate>>

\* the step without its `return 1`
RunLoadTomlStep_no_return(r) ==
    /\ runLoad' = r
    /\ runLog' = runLog \o r.errors
    /\ pc' = "typecheck"
    /\ UNCHANGED exitCode

RunLoadTomlStep(r) ==
    /\ runLoad' = r
    /\ IF r.tag = "Err"
       THEN /\ runLog' = runLog \o r.errors
            /\ exitCode' = 1
            /\ pc' = "done"
       ELSE /\ pc' = "typecheck"
            /\ UNCHANGED <<runLog, exitCode>>

\* match config.load_toml(config_path): Err: log and return 1
RunLoadToml ==
    /\ mode = "app" /\ pc = "load_toml"
    /\ RunLoadTomlStep(load_toml(fs, doc))
    /\ UNCHANGED <<threads, returned, projectBuild, heap, mode, resultBool, hashOrder, predInput, predOutput, builder,
                   child, validator, calls, tree, result, fs, doc, loadResult,
                   loadCalledValidate, runTypecheck, runValidate>>

\* typesys_old.Config.check(toml_data): logged at info level only
RunTypecheck ==
    /\ mode = "app" /\ pc = "typecheck"
    /\ runTypecheck' = [kind |-> "checked", ok |-> TypeCheck(Config, runLoad.value)]
    /\ pc' = "validate"
    /\ UNCHANGED <<threads, returned, projectBuild, heap, mode, resultBool, hashOrder, predInput, predOutput, builder,
                   child, validator, calls, tree, result, fs, doc, loadResult,
                   loadCalledValidate, runLoad, runValidate, runLog, exitCode>>

\* the validate step without its `return 1`
RunValidate_no_return ==
    /\ mode = "app" /\ pc = "validate"
    /\ LET r == config_validate(runLoad.value)
       IN  /\ runValidate' = r
           /\ runLog' = runLog \o (IF r.tag = "Err" THEN r.errors ELSE <<>>)
           /\ pc' = IF r.tag = "Raise" THEN "raised" ELSE "build"
           /\ UNCHANGED exitCode
    /\ UNCHANGED <<threads, returned, projectBuild, heap, mode, resultBool, hashOrder, predInput, predOutput,
                   builder, child, validator, calls, tree, result, fs, doc,
                   loadResult, loadCalledValidate, runLoad, runTypecheck>>

\* match config.validate(toml_data): Err: log every error and return 1
RunValidate ==
    /\ mode = "app" /\ pc = "validate"
    /\ LET r == config_validate(runLoad.value)
       IN  /\ runValidate' = r
           /\ CASE r.tag = "Err" ->
                    /\ runLog' = runLog \o r.errors
                    /\ exitCode' = 1
                    /\ pc' = "done"
                [] r.tag = "Raise" ->
                    /\ pc' = "raised"
                    /\ UNCHANGED <<runLog, exitCode>>
                [] r.tag = "Ok" ->
                    /\ pc' = "build"
                    /\ UNCHANGED <<runLog, exitCode>>
    /\ UNCHANGED <<threads, returned, projectBuild, heap, mode, resultBool, hashOrder, predInput, predOutput, builder,
                   child, validator, calls, tree, result, fs, doc, loadResult,
                   loadCalledValidate, runLoad, runTypecheck>>

(***************************************************************************)
(* compilers.py and builder.py: the project builder.                       *)
(***************************************************************************)
\* the keys of compilers.OPTIONS, and compilers.DEFAULT
OPTIONS == {Str(GccChars)}
DEFAULT == Str(GccChars)

\* dict.get(key, default)
GetOr(data, key, default) ==
    IF Get(data, key) = None THEN default ELSE Get(data, key)

\* builder.Builder.__init__: what it reads from the configuration
project_builder_init(config) ==
    LET program == Get(config, "program")
        dependencies == GetOr(config, "dependencies", EmptyDict)
        build_options == GetOr(config, "build", EmptyDict)
        Failed(exc) ==
            [NoBuild EXCEPT !.raised = exc, !.raised_in = "__init__"]
    IN  IF program = None THEN Failed("KeyError")
        ELSE IF program.kind # "table" THEN Failed("TypeError")
        ELSE IF Get(program, "name") = None THEN Failed("KeyError")
        ELSE IF dependencies.kind # "table" THEN Failed("AttributeError")
        ELSE IF build_options.kind # "table" THEN Failed("AttributeError")
        ELSE [NoBuild EXCEPT
                !.compiler_name = GetOr(build_options, "compiler", DEFAULT)]

\* builder.Builder.delete_binary: os.remove with OSError suppressed
delete_binary(self, removeRaises) ==
    [self EXCEPT !.delete_binary = @ + 1, !.remove_raised = removeRaises]

\* builder.Builder.build removing the binary whatever the compiler returned
project_build_delete_always(self, returncode, removeRaises) ==
    IF self.compiler_name \notin OPTIONS
    THEN [self EXCEPT !.raised = "KeyError", !.raised_in = "build"]
    ELSE [delete_binary(self, removeRaises) EXCEPT
            !.returncode = returncode,
            !.returned = IF returncode # 0 THEN "False" ELSE "True"]

\* builder.Builder.build
project_build(self, returncode, removeRaises) ==
    IF self.compiler_name \notin OPTIONS
    THEN [self EXCEPT !.raised = "KeyError", !.raised_in = "build"]
    ELSE IF returncode # 0
    THEN [delete_binary(self, removeRaises) EXCEPT
            !.returncode = returncode, !.returned = "False"]
    ELSE [self EXCEPT !.returncode = returncode, !.returned = "True"]

\* what subprocess.run can give as returncode
ReturnCodes == {0, 1, 2}

\* project_builder = builder.Builder(...); project_builder.build(mode=...);
\* return 0 if succeeded else 1
RunBuild ==
    /\ mode = "app" /\ pc = "build"
    /\ \E returncode \in ReturnCodes, removeRaises \in BOOLEAN :
        LET made == project_builder_init(runValidate.value)
            done == IF made.raised # "none" THEN made
                    ELSE project_build(made, returncode, removeRaises)
        IN  /\ projectBuild' = done
            /\ IF done.raised # "none"
               THEN pc' = "raised" /\ UNCHANGED exitCode
               ELSE /\ pc' = "done"
                    /\ exitCode' = IF done.returned = "True" THEN 0 ELSE 1
    /\ UNCHANGED <<threads, returned, heap, mode, resultBool, hashOrder,
                   predInput, predOutput, builder, child, validator, calls,
                   tree, result, fs, doc, loadResult, loadCalledValidate,
                   runLoad, runTypecheck, runValidate, runLog>>

Next ==
    \/ ValidateConfig
    \/ Load
    \/ RunStart
    \/ RunLoadToml
    \/ RunTypecheck
    \/ RunValidate
    \/ RunBuild

Spec == Init /\ [][Next]_vars

(***************************************************************************)
(* The schema builder and the validator engine as a state machine.         *)
(***************************************************************************)
appVars == <<fs, doc, loadResult, loadCalledValidate, pc, runLoad,
             runTypecheck, runValidate, runLog, exitCode, projectBuild>>
fixedVars == <<mode, resultBool, hashOrder, predInput, predOutput, threads,
               returned>>

BuilderNames == {NoName, "s"}
FieldOptions ==
    {[name |-> "a", predicate |-> "string", optional |-> FALSE],
     [name |-> "a", predicate |-> "list of strings", optional |-> TRUE],
     [name |-> "b", predicate |-> "list of strings", optional |-> FALSE],
     [name |-> "b", predicate |-> "string", optional |-> TRUE]}

\* trees given to validate
LeafVals == {None, Str(<<97>>), Lst(<<>>)}
\* (a `config` table comes only with tables that have neither `a` nor `b`)
EngineTrees ==
    {Other} \cup
    {Dict([a |-> x, b |-> w, y |-> u, s |-> c, config |-> None]) :
        x \in LeafVals, w \in {None, Str(<<97>>)}, u \in BogusVals,
        c \in {None, Other, EmptyDict, Dict([a |-> Lst(<<>>), y |-> Other])}}
    \cup
    {Dict([y |-> u, s |-> c, config |-> Dict([a |-> Other])]) :
        u \in BogusVals,
        c \in {None, Other, EmptyDict, Dict([a |-> Lst(<<>>), y |-> Other])}}

InitEngine ==
    /\ mode = "engine"
    \* not read: every field of these schemas holds a Predicate object
    /\ resultBool = "object"
    /\ hashOrder \in HashOrders
    /\ predInput = NoValue /\ predOutput = NoValue
    /\ builder \in {Builder(n) : n \in BuilderNames}
    /\ child = NoValue /\ validator = NoValue /\ calls = 0
    /\ heap = <<>>
    /\ tree = NoValue /\ result = NoResult
    /\ IdleApp /\ IdleCalls

\* Builder(name): a new builder; the validator built last is kept as `child`
NewBuilder ==
    /\ mode = "engine" /\ validator # NoValue /\ tree = NoValue
    /\ calls < MaxCalls
    /\ \E n \in BuilderNames : builder' = Builder(n)
    /\ child' = validator
    /\ validator' = NoValue
    /\ calls' = calls + 1
    /\ UNCHANGED <<tree, result, fixedVars, appVars, heap>>

AddField ==
    /\ mode = "engine" /\ validator = NoValue /\ calls < MaxCalls
    /\ \E o \in FieldOptions :
        builder' = add_field(builder, o.name, Predicate(o.predicate), o.optional)
    /\ calls' = calls + 1
    /\ UNCHANGED <<child, validator, tree, result, fixedVars, appVars, heap>>

AddSection ==
    /\ mode = "engine" /\ validator = NoValue /\ calls < MaxCalls
    /\ child # NoValue
    /\ \E optional \in BOOLEAN :
        builder' = add_section(builder, child, optional)
    /\ calls' = calls + 1
    /\ UNCHANGED <<child, validator, tree, result, fixedVars, appVars, heap>>

Build ==
    /\ mode = "engine" /\ validator = NoValue
    /\ validator' = build(builder)
    /\ UNCHANGED <<builder, child, calls, tree, result, fixedVars, appVars, heap>>

Validate ==
    /\ mode = "engine" /\ validator # NoValue /\ tree = NoValue
    /\ \E t \in EngineTrees :
        /\ tree' = t
        /\ result' = validate(validator, t)
    /\ UNCHANGED <<builder, child, validator, calls, fixedVars, appVars, heap>>

NextEngine ==
    \/ NewBuilder
    \/ AddField
    \/ AddSection
    \/ Build
    \/ Validate

SpecEngine == InitEngine /\ [][NextEngine]_vars

(***************************************************************************)
(* The Builder and its Validator as objects: `heap` holds the list objects *)
(* (Builder._fields, Builder._sections, Validator._fields,                 *)
(* Validator._sections); an object refers to its lists by their index.     *)
(***************************************************************************)
\* Builder.__init__: two new empty lists
NewBuilderObject(h, name) ==
    [heap |-> h \o << <<>>, <<>> >>,
     object |-> [name |-> name, _fields |-> Len(h) + 1,
                 _sections |-> Len(h) + 2]]

\* Validator.__init__ keeping the lists it is given
NewValidator_without_copy(h, name, fields, sections) ==
    [heap |-> h,
     object |-> [section_name |-> name, _fields |-> fields,
                 _sections |-> sections]]

\* Validator.__init__: list(fields) and list(sections) are new lists
NewValidator(h, name, fields, sections) ==
    [heap |-> h \o <<h[fields], h[sections]>>,
     object |-> [section_name |-> name, _fields |-> Len(h) + 1,
                 _sections |-> Len(h) + 2]]

\* the schema a Validator object recognises in a given heap
Deref(v, h) == Validator(v.section_name, h[v._fields], h[v._sections])

\* a Validator built earlier by another builder, given to add_section
SectionValidator ==
    build(add_field(Builder("s"), "a", Predicate("string"), FALSE))

ObjectFieldOptions == {o \in FieldOptions : o.predicate = "string"}

ObjectTrees ==
    {Other} \cup
    {Dict([a |-> x, b |-> w, s |-> c]) :
        x \in {None, Str(<<97>>)}, w \in {None, Str(<<97>>)},
        c \in {None, Other, EmptyDict}}

InitObjects ==
    /\ mode = "objects"
    /\ resultBool = "object" /\ hashOrder = KeyOrder
    /\ predInput = NoValue /\ predOutput = NoValue
    /\ \E n \in BuilderNames :
        /\ heap = NewBuilderObject(<<>>, n).heap
        /\ builder = NewBuilderObject(<<>>, n).object
    /\ child = SectionValidator /\ validator = NoValue /\ calls = 0
    /\ tree = NoValue /\ result = NoResult
    /\ IdleApp /\ IdleCalls

\* builder.add_field(...): self._fields.append(...)
ObjAddField ==
    /\ mode = "objects" /\ calls < MaxCalls
    /\ \E o \in ObjectFieldOptions :
        heap' = [heap EXCEPT ![builder._fields] =
                    Append(@, ValidationField(o.name, Predicate(o.predicate),
                                              o.optional))]
    /\ calls' = calls + 1
    /\ UNCHANGED <<builder, child, validator, tree, result, fixedVars, appVars>>

\* builder.add_section(...): self._sections.append(...)
ObjAddSection ==
    /\ mode = "objects" /\ calls < MaxCalls
    /\ \E optional \in BOOLEAN :
        heap' = [heap EXCEPT ![builder._sections] =
                    Append(@, ValidationSection(Name(child), child, optional))]
    /\ calls' = calls + 1
    /\ UNCHANGED <<builder, child, validator, tree, result, fixedVars, appVars>>

\* builder.build(for_type=...): Validator(name=..., fields=..., sections=...)
ObjBuild ==
    /\ mode = "objects" /\ validator = NoValue
    /\ LET made == NewValidator(heap, builder.name, builder._fields,
                                builder._sections)
       IN  /\ heap' = made.heap
           /\ validator' = made.object
    /\ UNCHANGED <<builder, child, calls, tree, result, fixedVars, appVars>>

\* validator.validate(tree), at any time after build
ObjValidate ==
    /\ mode = "objects" /\ validator # NoValue
    /\ \E t \in ObjectTrees :
        /\ tree' = t
        /\ result' = validate(Deref(validator, heap), t)
    /\ UNCHANGED <<builder, child, validator, calls, heap, fixedVars, appVars>>

NextObjects ==
    \/ ObjAddField
    \/ ObjAddSection
    \/ ObjBuild
    \/ ObjValidate

SpecObjects == InitObjects /\ [][NextObjects]_vars

(***************************************************************************)
(* Validator.validate as a sequence of steps, called by several callers on *)
(* one Validator: each call has its own frame (its data, its loop          *)
(* position, its `errors` list); the callers' steps interleave freely.     *)
(***************************************************************************)
Callers == 1..NumCallers

\* the Validator the callers share
SharedValidator ==
    build(add_section(
            add_field(add_field(Builder(NoName), "a", Predicate("string"),
                                FALSE),
                      "b", Predicate("list of strings"), TRUE),
            SectionValidator, FALSE))

CallTrees ==
    {Other,
     Dict([a |-> Str(<<97>>), s |-> Dict([a |-> Str(<<97>>)])]),
     Dict([b |-> Other, y |-> Other, s |-> EmptyDict])}

IdleFrame ==
    [pc |-> "idle", data |-> NoValue, i |-> 0, errors |-> <<>>]

\* errors: list[ValidationError] = [] with the list of the earlier call kept
NewErrors_kept(frame) == frame.errors

\* errors: list[ValidationError] = []
NewErrors(frame) == <<>>

\* errors.append / errors.extend on one list shared by the callers
AppendErrors_shared(frames, c, errs) ==
    [d \in DOMAIN frames |-> [frames[d] EXCEPT !.errors = @ \o errs]]

\* errors.append / errors.extend on the call's own list
AppendErrors(frames, c, errs) ==
    [frames EXCEPT ![c].errors = @ \o errs]

\* a call returned `r` for `data`
Returned(data, r) ==
    [returned EXCEPT ![data] =
        [again |-> @.results # {}, results |-> @.results \cup {r}]]

InitCalls ==
    /\ mode = "calls"
    /\ resultBool = "object" /\ hashOrder = KeyOrder
    /\ predInput = NoValue /\ predOutput = NoValue
    /\ builder = NoValue /\ child = NoValue /\ calls = 0 /\ heap = <<>>
    /\ validator = SharedValidator
    /\ tree = NoValue /\ result = NoResult
    /\ threads = [c \in Callers |-> IdleFrame]
    /\ returned = [t \in CallTrees |-> [again |-> FALSE, results |-> {}]]
    /\ IdleApp

callFrame == <<mode, resultBool, hashOrder, predInput, predOutput, builder,
               child, validator, calls, heap, tree, result, appVars>>

\* validate(data): the kind check, then a new errors list
CallValidate(c) ==
    /\ mode = "calls" /\ threads[c].pc = "idle"
    /\ \E data \in CallTrees :
        IF ~is_any_dict(data)
        THEN /\ returned' =
                    Returned(data, Err(<<SectionKindError(Name(validator))>>))
             /\ UNCHANGED threads
        ELSE /\ threads' =
                    [threads EXCEPT ![c] =
                        [pc |-> "unrecognized", data |-> data, i |-> 1,
                         errors |-> NewErrors(threads[c])]]
             /\ UNCHANGED returned
    /\ UNCHANGED callFrame

\* for entry in unrecognized_entries: errors.append(...)
StepUnrecognized(c) ==
    /\ mode = "calls" /\ threads[c].pc = "unrecognized"
    /\ LET entries ==
            IterationOrder(hashOrder,
                _get_unrecognized_entries(validator, threads[c].data))
           errs == [i \in 1..Len(entries) |->
                      NonexistentFieldError(entries[i],
                                            validator.section_name)]
       IN  threads' =
                [AppendErrors(threads, c, errs) EXCEPT
                    ![c].pc = "fields", ![c].i = 1]
    /\ UNCHANGED <<returned, callFrame>>

\* for field in self._fields: one turn of the loop
StepField(c) ==
    /\ mode = "calls" /\ threads[c].pc = "fields"
    /\ IF threads[c].i > Len(validator.fields)
       THEN threads' = [threads EXCEPT ![c].pc = "sections", ![c].i = 1]
       ELSE LET field == validator.fields[threads[c].i]
                r == _check_field(validator, field.name,
                                  Get(threads[c].data, field.name),
                                  field.validator, field.optional)
            IN  threads' =
                    [AppendErrors(threads, c, r.errors) EXCEPT ![c].i = @ + 1]
    /\ UNCHANGED <<returned, callFrame>>

\* for section in self._sections: one turn of the loop
StepSection(c) ==
    /\ mode = "calls" /\ threads[c].pc = "sections"
    /\ IF threads[c].i > Len(validator.sections)
       THEN threads' = [threads EXCEPT ![c].pc = "return"]
       ELSE LET section == validator.sections[threads[c].i]
                r == _check_section(Get(threads[c].data, section.name),
                                    section.validator, section.optional)
            IN  threads' =
                    [AppendErrors(threads, c, r.errors) EXCEPT ![c].i = @ + 1]
    /\ UNCHANGED <<returned, callFrame>>

\* if errors: return Err(errors); return Ok(data)
StepReturn(c) ==
    /\ mode = "calls" /\ threads[c].pc = "return"
    /\ returned' =
            Returned(threads[c].data,
                     IF threads[c].errors # <<>>
                     THEN Err(threads[c].errors)
                     ELSE Ok(threads[c].data))
    /\ threads' = [threads EXCEPT ![c].pc = "idle"]
    /\ UNCHANGED callFrame

NextCalls ==
    \E c \in Callers :
        \/ CallValidate(c)
        \/ StepUnrecognized(c)
        \/ StepField(c)
        \/ StepSection(c)
        \/ StepReturn(c)

SpecCalls == InitCalls /\ [][NextCalls]_vars

(***************************************************************************)
(* Properties: the validator engine.                                       *)
(***************************************************************************)
Validated == mode = "engine" /\ result.tag # "NoResult"

FieldNames(S) == {S.fields[i].name : i \in 1..Len(S.fields)}
SectionNames(S) == {S.sections[i].name : i \in 1..Len(S.sections)}

\* the tree has the shape the schema describes
RECURSIVE Conforms(_, _)
Conforms(S, t) ==
    /\ t.kind = "table"
    /\ \A k \in DictKeys(t) : k \in FieldNames(S) \cup SectionNames(S)
    /\ \A i \in 1..Len(S.fields) :
        LET f == S.fields[i]
        IN  IF f.name \in DictKeys(t)
            THEN PredicateFunction(f.validator.name, Get(t, f.name))
            ELSE f.optional
    /\ \A i \in 1..Len(S.sections) :
        LET sec == S.sections[i]
        IN  IF sec.name \in DictKeys(t)
            THEN Conforms(sec.validator, Get(t, sec.name))
            ELSE sec.optional

\* C1: soundness: if validate returns Ok then the tree is a table, every
\* non-optional field and section is present, every present field satisfies
\* its predicate, every present section is accepted by its sub-validator, and
\* no key lies outside the schema's field and section names.
C1_Soundness ==
    (Validated /\ result.tag = "Ok") => Conforms(validator, tree)

\* an accepted tree with a required field and a present section
C1_Witness ==
    /\ Validated /\ result.tag = "Ok"
    /\ \E i \in 1..Len(validator.fields) : ~validator.fields[i].optional
    /\ \E i \in 1..Len(validator.sections) :
        Get(tree, validator.sections[i].name) # None

\* the diagnostics the schema calls for, as a bag: one per violating entry
RECURSIVE SeqToBag(_)
SeqToBag(q) ==
    IF q = <<>> THEN EmptyBag ELSE SetToBag({Head(q)}) (+) SeqToBag(Tail(q))

RECURSIVE Violations(_, _)
RECURSIVE FieldViolations(_, _, _)
RECURSIVE SectionViolations(_, _, _)

FieldViolations(S, t, i) ==
    IF i = 0 THEN EmptyBag
    ELSE LET f == S.fields[i]
             here ==
                IF f.name \notin DictKeys(t)
                THEN IF f.optional THEN {}
                     ELSE {MissingFieldError(f.name, S.section_name)}
                ELSE IF PredicateFunction(f.validator.name, Get(t, f.name))
                     THEN {}
                     ELSE {FieldTypeError(f.name, S.section_name,
                                          f.validator.name)}
         IN  SetToBag(here) (+) FieldViolations(S, t, i - 1)

SectionViolations(S, t, i) ==
    IF i = 0 THEN EmptyBag
    ELSE LET sec == S.sections[i]
             here ==
                IF sec.name \notin DictKeys(t)
                THEN IF sec.optional THEN EmptyBag
                     ELSE SetToBag({MissingSectionError(sec.name)})
                ELSE Violations(sec.validator, Get(t, sec.name))
         IN  here (+) SectionViolations(S, t, i - 1)

Violations(S, t) ==
    IF t.kind # "table" THEN SetToBag({SectionKindError(Name(S))})
    ELSE SetToBag({NonexistentFieldError(k, S.section_name) :
                      k \in DictKeys(t) \ (FieldNames(S) \cup SectionNames(S))})
         (+) FieldViolations(S, t, Len(S.fields))
         (+) SectionViolations(S, t, Len(S.sections))

\* C2: completeness of accumulation: a tree violating the schema in k ways
\* gets Err with exactly k diagnostics, one per violation, whatever their
\* order; validation does not stop at the first.
C2_Completeness ==
    Validated =>
        LET expected == Violations(validator, tree)
        IN  /\ SeqToBag(result.errors) = expected
            /\ Len(result.errors) = BagCardinality(expected)
            /\ BagCardinality(expected) > 0 => result.tag = "Err"

\* one violation at the root and two in a nested section, all reported
C2_Witness ==
    /\ Validated /\ result.tag = "Err" /\ Len(result.errors) >= 3
    /\ validator.section_name = NoName
    /\ \E e \in Errors(result) :
        e.kind = "NonexistentFieldError" /\ e.section_name = NoName
    /\ \E e \in Errors(result) :
        e.kind = "NonexistentFieldError" /\ e.section_name = "s"
    /\ \E e \in Errors(result) :
        e.kind = "FieldTypeError" /\ e.section_name = "s"

\* C3: validate returns Ok exactly when the walk produced no diagnostic; the
\* Ok value is the tree passed in; every Err carries a non-empty list with all
\* the diagnostics.
C3_OkIffNoDiagnostic ==
    Validated =>
        /\ result.tag \in {"Ok", "Err"}
        /\ result.tag = "Ok" <=> Violations(validator, tree) = EmptyBag
        /\ result.tag = "Ok" => result.value = tree /\ result.errors = <<>>
        /\ result.tag = "Err" =>
            /\ result.errors # <<>>
            /\ \A d \in BagToSet(Violations(validator, tree)) :
                d \in Errors(result)

\* a non-empty tree accepted and handed back
C3_Witness ==
    /\ Validated /\ result.tag = "Ok" /\ result.value = tree
    /\ DictKeys(tree) # {}

(***************************************************************************)
(* Properties: the diagnostics of one node.                                *)
(***************************************************************************)
ValidatedTable == Validated /\ tree.kind = "table"

\* the diagnostics the present sections call for, below the root
RECURSIVE NestedViolations(_, _, _)
NestedViolations(S, t, i) ==
    IF i = 0 THEN EmptyBag
    ELSE LET sec == S.sections[i]
             here ==
                IF sec.name \in DictKeys(t)
                THEN Violations(sec.validator, Get(t, sec.name))
                ELSE EmptyBag
         IN  here (+) NestedViolations(S, t, i - 1)

\* the names a diagnostic of the root node can be about
OwnNames == DictKeys(tree) \cup _get_entry_names(validator)

\* the diagnostics validate reported for the root node itself
OwnDiagnostics ==
    SeqToBag(result.errors)
        (-) NestedViolations(validator, tree, Len(validator.sections))

\* C15: a value that is not a table gets exactly one diagnostic,
\* SectionKindError(S.name), and nothing else for that node or below it, at
\* the root and as the value of a declared section.
C15_KindErrorOnly ==
    /\ (Validated /\ tree.kind # "table") =>
            result = Err(<<SectionKindError(Name(validator))>>)
    /\ ValidatedTable =>
        \A i \in 1..Len(validator.sections) :
            LET sec == validator.sections[i]
                value == Get(tree, sec.name)
            IN  (value # None /\ value.kind # "table") =>
                    /\ validate(sec.validator, value)
                         = Err(<<SectionKindError(Name(sec.validator))>>)
                    /\ SectionKindError(Name(sec.validator)) \in Errors(result)
                    /\ \A e \in Errors(result) :
                        e.kind = "SectionKindError" =>
                            e.section_name \in SectionNames(validator)

\* a section with a required field was given a scalar: one kind error
C15_Witness ==
    /\ ValidatedTable
    /\ result.errors = <<SectionKindError("s")>>
    /\ \E i \in 1..Len(validator.sections) :
        /\ Get(tree, validator.sections[i].name) = Other
        /\ \E j \in 1..Len(validator.sections[i].validator.fields) :
            ~validator.sections[i].validator.fields[j].optional

\* C16: every key of the table that is neither a declared field nor a
\* declared section gets exactly one NonexistentFieldError(key,
\* S.section_name); declared names never get it.
C16_UnrecognizedKeys ==
    ValidatedTable =>
      LET own == OwnDiagnostics IN
        /\ \A e \in BagToSet(own) :
            e.kind = "NonexistentFieldError" => e.field_name \in OwnNames
        /\ \A k \in OwnNames :
            CopiesIn(NonexistentFieldError(k, validator.section_name),
                     own)
                = IF /\ k \in DictKeys(tree)
                     /\ k \notin FieldNames(validator)
                     /\ k \notin SectionNames(validator)
                  THEN 1 ELSE 0

\* two unknown keys beside a declared field and a declared section
C16_Witness ==
    /\ ValidatedTable
    /\ Cardinality(DictKeys(tree) \ _get_entry_names(validator)) = 2
    /\ FieldNames(validator) \cap DictKeys(tree) # {}
    /\ SectionNames(validator) \cap DictKeys(tree) # {}
    /\ Len(result.errors) = 2
    /\ \A e \in Errors(result) : e.kind = "NonexistentFieldError"

\* C17: every declared field that is not optional and whose key is absent
\* gets exactly one MissingFieldError(name, S.section_name), and the
\* diagnostic is emitted in that case only.
C17_MissingField ==
    ValidatedTable =>
      LET own == OwnDiagnostics IN
        /\ \A e \in BagToSet(own) :
            e.kind = "MissingFieldError" => e.field_name \in OwnNames
        /\ \A n \in OwnNames :
            CopiesIn(MissingFieldError(n, validator.section_name),
                     own)
                = Cardinality({i \in 1..Len(validator.fields) :
                                /\ validator.fields[i].name = n
                                /\ ~validator.fields[i].optional
                                /\ n \notin DictKeys(tree)})

\* a required field and an optional one are absent: one diagnostic
C17_Witness ==
    /\ ValidatedTable
    /\ \E i, j \in 1..Len(validator.fields) :
        /\ ~validator.fields[i].optional /\ validator.fields[j].optional
        /\ validator.fields[i].name \notin DictKeys(tree)
        /\ validator.fields[j].name \notin DictKeys(tree)
        /\ result.errors = <<MissingFieldError(validator.fields[i].name,
                                               validator.section_name)>>

\* C18: a declared field whose key is present gets exactly one
\* FieldTypeError(name, S.section_name, predicate.name) when its predicate
\* rejects the value and none when it accepts it, optional or not.
C18_FieldPredicate ==
    ValidatedTable =>
      LET own == OwnDiagnostics IN
        /\ \A e \in BagToSet(own) :
            e.kind = "FieldTypeError" => e.field_name \in OwnNames
        /\ \A n \in OwnNames, pn \in PredicateNames :
            CopiesIn(FieldTypeError(n, validator.section_name, pn),
                     own)
                = Cardinality({i \in 1..Len(validator.fields) :
                                /\ validator.fields[i].name = n
                                /\ validator.fields[i].validator.name = pn
                                /\ n \in DictKeys(tree)
                                /\ ~PredicateFunction(pn, Get(tree, n))})

\* an optional field is rejected and a required one accepted
C18_Witness ==
    /\ ValidatedTable
    /\ \E i, j \in 1..Len(validator.fields) :
        LET f == validator.fields[i]
            g == validator.fields[j]
        IN  /\ f.optional /\ ~g.optional
            /\ f.name \in DictKeys(tree) /\ g.name \in DictKeys(tree)
            /\ PredicateFunction(g.validator.name, Get(tree, g.name))
            /\ result.errors = <<FieldTypeError(f.name, validator.section_name,
                                                f.validator.name)>>

\* C19: every declared section that is not optional and whose key is absent
\* gets exactly one MissingSectionError(name), and its validator is not
\* walked.
C19_MissingSection ==
    ValidatedTable =>
      LET own == OwnDiagnostics IN
        /\ \A e \in BagToSet(own) :
            e.kind = "MissingSectionError" => e.section_name \in OwnNames
        /\ \A n \in OwnNames :
            CopiesIn(MissingSectionError(n), own)
                = Cardinality({i \in 1..Len(validator.sections) :
                                /\ validator.sections[i].name = n
                                /\ ~validator.sections[i].optional
                                /\ n \notin DictKeys(tree)})
        /\ \A i \in 1..Len(validator.sections) :
            LET sec == validator.sections[i]
            IN  (~sec.optional /\ sec.name \notin DictKeys(tree)) =>
                    _check_section(Get(tree, sec.name), sec.validator, FALSE)
                        = Err(<<MissingSectionError(sec.name)>>)

\* a required section with a required field is absent: one diagnostic
C19_Witness ==
    /\ ValidatedTable
    /\ result.errors = <<MissingSectionError("s")>>
    /\ \E i \in 1..Len(validator.sections) :
        /\ ~validator.sections[i].optional
        /\ \E j \in 1..Len(validator.sections[i].validator.fields) :
            ~validator.sections[i].validator.fields[j].optional

\* the schema without its optional entries that the tree leaves out
WithoutAbsentOptional(S, t) ==
    LET Kept(e) == ~(e.optional /\ e.name \notin DictKeys(t))
    IN  Validator(S.section_name, SelectSeq(S.fields, Kept),
                  SelectSeq(S.sections, Kept))

\* C20: an optional field or section whose key is absent produces no
\* diagnostic, and its absence alone does not turn a tree into Err: the
\* result is the one of the schema without these entries.
C20_OptionalAbsent ==
    ValidatedTable =>
        /\ \A i \in 1..Len(validator.fields) :
            LET f == validator.fields[i]
            IN  (f.optional /\ f.name \notin DictKeys(tree)) =>
                    _check_field(validator, f.name, Get(tree, f.name),
                                 f.validator, TRUE).tag = "Ok"
        /\ \A i \in 1..Len(validator.sections) :
            LET sec == validator.sections[i]
            IN  (sec.optional /\ sec.name \notin DictKeys(tree)) =>
                    _check_section(Get(tree, sec.name), sec.validator,
                                   TRUE).tag = "Ok"
        /\ result = validate(WithoutAbsentOptional(validator, tree), tree)

\* an optional field and an optional section are absent and the tree is Ok
C20_Witness ==
    /\ ValidatedTable /\ result.tag = "Ok"
    /\ \E i \in 1..Len(validator.fields) :
        /\ validator.fields[i].optional
        /\ validator.fields[i].name \notin DictKeys(tree)
    /\ \E i \in 1..Len(validator.sections) :
        /\ validator.sections[i].optional
        /\ validator.sections[i].name \notin DictKeys(tree)

(***************************************************************************)
(* Properties: nesting.                                                    *)
(***************************************************************************)
FieldLevelKinds ==
    {"FieldTypeError", "MissingFieldError", "NonexistentFieldError"}

\* what the present sections' own validators return, added up
RECURSIVE SectionResults(_, _, _)
SectionResults(S, t, i) ==
    IF i = 0 THEN EmptyBag
    ELSE LET sec == S.sections[i]
             here ==
                IF sec.name \in DictKeys(t)
                THEN SeqToBag(validate(sec.validator, Get(t, sec.name)).errors)
                ELSE EmptyBag
         IN  here (+) SectionResults(S, t, i - 1)

\* at S and at every section below, the section validators' diagnostics are
\* among the parent's as they are, and a node's own field-level diagnostics
\* carry the node's section name
RECURSIVE Flat(_, _)
Flat(S, t) ==
    t.kind = "table" =>
        LET all == SeqToBag(validate(S, t).errors)
            below == SectionResults(S, t, Len(S.sections))
        IN  /\ below \sqsubseteq all
            /\ \A e \in BagToSet(all (-) below) :
                e.kind \in FieldLevelKinds => e.section_name = S.section_name
            /\ \A i \in 1..Len(S.sections) :
                S.sections[i].name \in DictKeys(t) =>
                    Flat(S.sections[i].validator, Get(t, S.sections[i].name))

SwapAt(q, i) ==
    [j \in 1..Len(q) |->
        IF j = i THEN q[i + 1] ELSE IF j = i + 1 THEN q[i] ELSE q[j]]

\* the validators built from the same add_field / add_section calls with two
\* neighbouring calls exchanged, in the builder of S or of a section below
RECURSIVE Reordered(_)
Reordered(S) ==
    {Validator(S.section_name, SwapAt(S.fields, i), S.sections) :
        i \in 1..(Len(S.fields) - 1)}
    \cup {Validator(S.section_name, S.fields, SwapAt(S.sections, i)) :
        i \in 1..(Len(S.sections) - 1)}
    \cup UNION {
        {Validator(S.section_name, S.fields,
                   [S.sections EXCEPT ![i] =
                        ValidationSection(@.name, c, @.optional)]) :
            c \in Reordered(S.sections[i].validator)} :
        i \in 1..Len(S.sections)}

\* C23: the order of the add_field / add_section calls affects only the
\* order of the diagnostics: validators built from the same calls in another
\* order give every tree the same Ok/Err outcome and the same diagnostics.
C23_CallOrderIrrelevant ==
    Validated =>
        \A S2 \in Reordered(validator) :
            LET r2 == validate(S2, tree)
            IN  /\ r2.tag = result.tag /\ r2.value = result.value
                /\ Errors(r2) = Errors(result)
                /\ Len(r2.errors) = Len(result.errors)

\* two fields in error: the other call order reports them the other way round
C23_Witness ==
    /\ ValidatedTable /\ Len(result.errors) = 2
    /\ \E S2 \in Reordered(validator) :
        validate(S2, tree).errors = Reverse(result.errors)
    /\ result.errors[1] # result.errors[2]

(***************************************************************************)
(* Properties: kind errors among other diagnostics, order, names.          *)
(***************************************************************************)
\* the table without one key
WithoutKey(t, n) == Tbl([t.entries EXCEPT ![n] = None])
\* the schema without the sections registered under one name
WithoutSection(S, n) ==
    LET Other_(sec) == sec.name # n
    IN  Validator(S.section_name, S.fields, SelectSeq(S.sections, Other_))

\* C25: when a declared section's value is present but is not a table, the
\* parent's result holds SectionKindError for that section, no
\* MissingSectionError for it, and every diagnostic of its unrecognised keys,
\* fields and other sections.
C25_KindErrorSuppressesNothing ==
    ValidatedTable =>
        \A n \in SectionNames(validator) :
            (Get(tree, n) # None /\ Get(tree, n).kind # "table") =>
                LET rest == validate(WithoutSection(validator, n),
                                     WithoutKey(tree, n))
                    declared == {i \in 1..Len(validator.sections) :
                                    validator.sections[i].name = n}
                    all == SeqToBag(result.errors)
                IN  /\ result.tag = "Err"
                    /\ CopiesIn(SectionKindError(n), all)
                         = Cardinality(declared)
                    /\ CopiesIn(MissingSectionError(n), all) = 0
                    /\ all = SeqToBag(rest.errors)
                             (+) SeqToBag([i \in 1..Cardinality(declared) |->
                                              SectionKindError(n)])

\* a scalar section beside an unknown key and a missing field: three reports
C25_Witness ==
    /\ ValidatedTable /\ Len(result.errors) = 3
    /\ SectionKindError("s") \in Errors(result)
    /\ \E e \in Errors(result) : e.kind = "NonexistentFieldError"
    /\ \E e \in Errors(result) : e.kind = "MissingFieldError"

\* C26: in the list of one validate call the NonexistentFieldError
\* diagnostics of the node come first, then the field diagnostics in the
\* order the fields were added, then each section's diagnostics as one block,
\* in the order the sections were added.
C26_DiagnosticOrder ==
    ValidatedTable =>
        LET unrecognized == DictKeys(tree) \ (FieldNames(validator)
                                               \cup SectionNames(validator))
            k == Cardinality(unrecognized)
            fieldPart ==
                Concat([i \in 1..Len(validator.fields) |->
                    _check_field(validator, validator.fields[i].name,
                                 Get(tree, validator.fields[i].name),
                                 validator.fields[i].validator,
                                 validator.fields[i].optional).errors])
            sectionPart ==
                Concat([i \in 1..Len(validator.sections) |->
                    _check_section(Get(tree, validator.sections[i].name),
                                   validator.sections[i].validator,
                                   validator.sections[i].optional).errors])
        IN  /\ Len(result.errors) = k + Len(fieldPart) + Len(sectionPart)
            /\ {result.errors[i] : i \in 1..k}
                 = {NonexistentFieldError(key, validator.section_name) :
                        key \in unrecognized}
            /\ SubSeq(result.errors, k + 1, k + Len(fieldPart)) = fieldPart
            /\ SubSeq(result.errors, k + Len(fieldPart) + 1,
                      Len(result.errors)) = sectionPart

\* an unknown key, a field in error and a section in error, in that order
C26_Witness ==
    /\ ValidatedTable /\ Len(result.errors) = 3
    /\ result.errors[1].kind = "NonexistentFieldError"
    /\ result.errors[2].kind \in {"MissingFieldError", "FieldTypeError"}
    /\ result.errors[3].kind \in {"MissingSectionError", "SectionKindError"}

\* C27: Validator.name is the builder's name, or "config" when none was
\* given; add_section registers the child under that name, so an unnamed child
\* is looked up under the key "config", its SectionKindError and
\* MissingSectionError report "config", and its field diagnostics report no
\* section.
C27_UnnamedValidatorIsConfig ==
    /\ (mode = "engine" /\ validator # NoValue) =>
        \A i \in 1..Len(validator.sections) :
            validator.sections[i].name =
                IF validator.sections[i].validator.section_name = NoName
                THEN "config"
                ELSE validator.sections[i].validator.section_name
    /\ (Validated /\ tree.kind # "table"
            /\ validator.section_name = NoName) =>
        result.errors = <<SectionKindError("config")>>
    /\ ValidatedTable =>
        \A i \in 1..Len(validator.sections) :
            LET sec == validator.sections[i]
                value == Get(tree, "config")
            IN  sec.validator.section_name = NoName =>
                    /\ (value = None /\ ~sec.optional) =>
                            MissingSectionError("config") \in Errors(result)
                    /\ (value # None /\ value.kind # "table") =>
                            SectionKindError("config") \in Errors(result)
                    /\ (value # None /\ value.kind = "table") =>
                        \A e \in Errors(validate(sec.validator, value)) :
                            /\ e \in Errors(result)
                            /\ e.kind \in FieldLevelKinds =>
                                    e.section_name = NoName

\* an unnamed child under a named parent: its table is found under "config"
\* and its field diagnostic names no section
C27_Witness ==
    /\ ValidatedTable /\ validator.section_name = "s"
    /\ \E i \in 1..Len(validator.sections) :
        /\ validator.sections[i].validator.section_name = NoName
        /\ validator.sections[i].name = "config"
    /\ Get(tree, "config") # None
    /\ NonexistentFieldError("a", NoName) \in Errors(result)

(***************************************************************************)
(* Properties: repeated and concurrent calls.                              *)
(***************************************************************************)
\* C22: idempotence: validate called twice with the same Validator and the
\* same tree gives structurally equal results, whatever other validate calls
\* happened in between.
C22_Idempotent ==
    mode = "calls" =>
        \A t \in CallTrees : Cardinality(returned[t].results) <= 1

\* every tree was validated at least twice, the others in between
C22_Witness ==
    /\ mode = "calls"
    /\ \A t \in CallTrees :
        returned[t].again /\ returned[t].results = {validate(validator, t)}
    /\ \E t \in CallTrees : validate(validator, t).tag = "Err"
    /\ \E t \in CallTrees : validate(validator, t).tag = "Ok"

\* C24: validate calls running concurrently on one Validator, in any
\* interleaving and without locking, each return what they return when run
\* alone; no call sees or alters another call's diagnostics, and the
\* Validator's fields and sections stay as they were.
C24_ConcurrentCalls ==
    mode = "calls" =>
        /\ \A t \in CallTrees :
            returned[t].results \subseteq {validate(validator, t)}
        /\ \A c \in Callers :
            threads[c].pc \notin {"idle", "unrecognized"} =>
                LET alone == validate_errors(validator, threads[c].data).errors
                    mine == threads[c].errors
                IN  /\ Len(mine) <= Len(alone)
                    /\ mine = SubSeq(alone, 1, Len(mine))
        /\ validator = SharedValidator

\* two calls are half-way: one has diagnostics, the other, on a valid tree,
\* has none
C24_Witness ==
    /\ mode = "calls"
    /\ threads[1].pc = "sections" /\ threads[2].pc = "sections"
    /\ threads[1].data # threads[2].data
    /\ Len(threads[1].errors) >= 2 /\ threads[2].errors = <<>>
    /\ validate(validator, threads[2].data).tag = "Ok"
    /\ \E t \in CallTrees : returned[t].results # {}

(***************************************************************************)
(* Properties: App.run.                                                    *)
(***************************************************************************)
\* C11: App.run loads, then validates, then builds: the project builder is
\* reached only after load returned Ok and validate returned Ok for the tree
\* that load returned; when either returns Err the run returns 1 without
\* reaching the project builder.
C11_LoadValidateBuild ==
    /\ [](mode = "app" =>
            /\ pc \in {"typecheck", "validate"} =>
                    runLoad.tag = "Ok" /\ runValidate = NoResult
            /\ pc = "build" =>
                    /\ runLoad.tag = "Ok" /\ runValidate.tag = "Ok"
                    /\ runValidate.value = runLoad.value
            /\ exitCode = 0 => runLoad.tag = "Ok" /\ runValidate.tag = "Ok"
            /\ (runLoad.tag = "Err" \/ runValidate.tag = "Err") =>
                    pc = "done" /\ exitCode = 1)
    /\ [][/\ (pc' = "validate" /\ pc # "validate") => pc = "typecheck"
          /\ (pc' = "build" /\ pc # "build") => pc = "validate"
          /\ (pc = "build" /\ pc' # "build") => pc' \in {"done", "raised"}
          /\ (pc' = "done" /\ pc \notin {"build", "done"}) => exitCode' = 1]_vars

\* a run whose load and validate succeeded and whose build returned 0
C11_Witness ==
    /\ mode = "app" /\ pc = "done" /\ exitCode = 0
    /\ runLoad.tag = "Ok" /\ runValidate = Ok(runLoad.value)

(***************************************************************************)
(* Properties: the Builder and its Validator as objects.                   *)
(***************************************************************************)
\* C12: once build() has returned a Validator, add_field and add_section on
\* the builder change neither the fields nor the sections the Validator
\* recognises, and the Validator answers every tree as before.
C12_BuiltValidatorFrozen ==
    [][(/\ mode = "objects" /\ validator # NoValue /\ validator' = validator
        /\ heap' # heap) =>
            /\ Deref(validator, heap') = Deref(validator, heap)
            /\ \A t \in ObjectTrees :
                validate(Deref(validator, heap'), t)
                    = validate(Deref(validator, heap), t)]_vars

\* the builder got a field and a section after build; the Validator did not
C12_Witness ==
    /\ mode = "objects" /\ validator # NoValue
    /\ Len(heap[builder._fields]) > Len(heap[validator._fields])
    /\ Len(heap[builder._sections]) > Len(heap[validator._sections])
    /\ result.tag = "Ok"

(***************************************************************************)
(* Properties: schema construction and the shipped schema's robustness.    *)
(***************************************************************************)
\* C13: names are unique by construction: every built Validator has unique
\* field names, unique section names, and no name that is both a field and a
\* section, because registering a name twice is rejected when it is added.
C13_UniqueNames ==
    (mode = "engine" /\ validator # NoValue) =>
        /\ \A i, j \in 1..Len(validator.fields) :
            validator.fields[i].name = validator.fields[j].name => i = j
        /\ \A i, j \in 1..Len(validator.sections) :
            validator.sections[i].name = validator.sections[j].name => i = j
        /\ FieldNames(validator) \cap SectionNames(validator) = {}

C28_CompilerLookupNeverFails ==
    /\ DEFAULT \in OPTIONS
    /\ \A c \in CompilerVals : is_compiler_name(c) => c \in OPTIONS
    /\ (mode = "app" /\ runValidate.tag = "Ok") =>
            ~(projectBuild.raised = "KeyError"
                /\ projectBuild.raised_in = "build")

\* C29: the project builder's build returns True exactly when the compiler
\* exits with 0; on another exit code delete_binary is called once before
\* False is returned, and never on success; an OSError while removing the
\* binary does not change what is returned.
C29_BuildOutcome ==
    (mode = "app" /\ projectBuild.returned # "none") =>
        /\ projectBuild.returned = "True" <=> projectBuild.returncode = 0
        /\ projectBuild.returned \in {"True", "False"}
        /\ projectBuild.delete_binary
             = IF projectBuild.returncode = 0 THEN 0 ELSE 1
        /\ projectBuild.raised = "none"
        /\ pc = "done"
        /\ exitCode = IF projectBuild.returncode = 0 THEN 0 ELSE 1

\* the compiler failed and the binary could not be removed: False, once
C29_Witness ==
    /\ mode = "app" /\ projectBuild.returned = "False"
    /\ projectBuild.returncode = 2 /\ projectBuild.remove_raised
    /\ projectBuild.delete_binary = 1 /\ exitCode = 1

\* C30: the experimental check of App.run is at least as permissive as the
\* validator: every tree the shipped configuration validator accepts is
\* accepted by typesys_old.Config.check; and the check's answer changes
\* neither App.run's return value nor whether the build runs.
C30_TypeCheckAtLeastAsPermissive ==
    /\ (mode = "app" /\ pc = "validated" /\ result.tag = "Ok") =>
            TypeCheck(Config, tree)
    /\ (mode = "app" /\ runValidate.tag = "Ok") => runTypecheck.ok

(***************************************************************************)
(* Properties: the predicate layer.                                        *)
(***************************************************************************)
IsLetter(c) == (97 <= c /\ c <= 122) \/ (65 <= c /\ c <= 90)

\* one or more '-'-separated segments, each non-empty, of letters and '_'
IsSegmentedIdentifier(value) ==
    /\ value.kind = "str"
    /\ LET s == value.chars
       IN  /\ Len(s) >= 1
           /\ \A i \in 1..Len(s) : IsLetter(s[i]) \/ s[i] = 95 \/ s[i] = 45
           /\ s[1] # 45 /\ s[Len(s)] # 45
           /\ \A i \in 1..(Len(s) - 1) : ~(s[i] = 45 /\ s[i + 1] = 45)

\* C7: is_project_identifier accepts a value exactly when it is a string of one
\* or more '-'-separated non-empty segments of letters and underscores.
C7_SegmentedIdentifier ==
    predInput # NoValue =>
        (predOutput["project identifier"] <=> IsSegmentedIdentifier(predInput))

(***************************************************************************)
(* Properties: the shipped schema.                                         *)
(***************************************************************************)
\* C4: validating a document with no `program` entry yields
\* MissingSectionError("program"), and for the empty document exactly that.
C4_MissingProgramSection ==
    (pc = "validated" /\ Get(tree, "program") = None) =>
        /\ result.tag = "Err"
        /\ MissingSectionError("program") \in Errors(result)
        /\ tree = EmptyDict => result.errors = <<MissingSectionError("program")>>

\* C5: diagnostics for entries inside the `program` table carry section_name
\* "program": a name failing the predicate gives FieldTypeError("name",
\* "program", "project identifier"), an unknown key k gives
\* NonexistentFieldError(k, "program").
C5_SectionNameRecorded ==
    (pc = "validated" /\ Get(tree, "program").kind = "table") =>
        LET program == Get(tree, "program")
        IN  /\ (Get(program, "name") # None
                    /\ ~is_project_identifier(Get(program, "name")))
                => FieldTypeError("name", "program", "project identifier")
                        \in Errors(result)
            /\ Get(program, "bogus") # None
                => NonexistentFieldError("bogus", "program") \in Errors(result)

\* the document shape of the configuration file
ShapeOfSection(value, required, known, ok(_, _)) ==
    /\ value.kind = "table"
    /\ DictKeys(value) \subseteq known
    /\ required \subseteq DictKeys(value)
    /\ \A k \in DictKeys(value) : ok(k, Get(value, k))

ProgramEntryOk(k, v) ==
    IF k = "name" THEN IsSegmentedIdentifier(v) ELSE is_string(v)
DependenciesEntryOk(k, v) == is_list_of_strings(v)
BuildEntryOk(k, v) ==
    IF k = "compiler" THEN v = Str(GccChars) ELSE is_list_of_strings(v)
RootEntryOk(k, v) ==
    CASE k = "program" ->
            ShapeOfSection(v, {"name"}, {"name", "description"}, ProgramEntryOk)
      [] k = "dependencies" ->
            ShapeOfSection(v, {}, {"include_dirs", "include_shared"},
                           DependenciesEntryOk)
      [] k = "build" ->
            ShapeOfSection(v, {}, {"compiler", "additional_flags"},
                           BuildEntryOk)
      [] OTHER -> FALSE
DocumentedShape(t) ==
    ShapeOfSection(t, {"program"}, {"program", "dependencies", "build"},
                   RootEntryOk)

\* C6: a document is accepted exactly when it has the documented shape, and an
\* accepted document is returned unchanged.
C6_AcceptsDocumentedShape ==
    pc = "validated" =>
        /\ result.tag = "Ok" <=> DocumentedShape(tree)
        /\ result.tag = "Ok" => result.value = tree

(***************************************************************************)
(* Properties: the load boundary.                                          *)
(***************************************************************************)
\* C8: load on a path with no file returns Err(NotFound); load on a file that
\* exists but may not be read returns Err(PermissionDenied), never NotFound.
C8_NotFoundVersusPermission ==
    pc = "loaded" =>
        /\ fs = "absent" => loadResult = Err(<<ConfigFileNotFoundError>>)
        /\ fs \in {"unreadable", "read_denied"}
            => loadResult = Err(<<ConfigFilePermissionError>>)

\* C9: load performs no schema validation: a readable well-formed document
\* gives Ok with the parsed tree, and every error returned is NotFound,
\* PermissionDenied or MalformedSyntax.
C9_LoadDoesNotValidate ==
    pc = "loaded" =>
        /\ ~loadCalledValidate
        /\ fs = "wellformed" => loadResult = Ok(doc)
        /\ loadResult.tag = "Err" =>
            Errors(loadResult) \subseteq
                {ConfigFileNotFoundError, ConfigFilePermissionError,
                 MalformedTOMLError}

SchemaDiagnosticKinds ==
    {"FieldTypeError", "SectionKindError", "MissingFieldError",
     "MissingSectionError", "NonexistentFieldError"}
SchemaDiagnostics(log) ==
    {i \in 1..Len(log) : log[i].kind \in SchemaDiagnosticKinds}
AcquisitionFailures(log) ==
    {i \in 1..Len(log) : log[i] \in AcquisitionErrors}

\* C10: a document that fails acquisition is never passed to the validator:
\* config.load does not reach CONFIG_VALIDATOR.validate for it, App.run does
\* not reach config.validate after a failed load, and no run logs both an
\* acquisition error and a schema diagnostic.
C10_AcquisitionSchemaSeparation ==
    /\ (pc = "loaded" /\ fs # "wellformed") =>
            /\ ~loadCalledValidate
            /\ loadResult.tag \in {"Err", "Raise"}
            /\ \A e \in Errors(loadResult) : e.kind # "InvalidConfigFileError"
    /\ fs # "wellformed" =>
            /\ runValidate = NoResult
            /\ SchemaDiagnostics(runLog) = {}
    /\ runLoad.tag = "Err" => runValidate = NoResult /\ runTypecheck = NoValue
    /\ ~(AcquisitionFailures(runLog) # {} /\ SchemaDiagnostics(runLog) # {})

\* a run that found a malformed document has returned 1 after the load step
C10_Witness ==
    /\ pc = "done" /\ fs = "malformed" /\ exitCode = 1
    /\ runLoad = Err(<<MalformedSyntax>>) /\ runLog = <<MalformedSyntax>>

====
